---- MODULE Spec2Model ----
(***************************************************************************)
(* Model of backend/main.py: a FastAPI application with two handlers,      *)
(* trigger_task and check_task_status, and one Celery task,                *)
(* long_running_task, executed by Celery workers.                          *)
(*                                                                         *)
(* The broker is a FIFO queue of task messages, the result backend a map   *)
(* from task id to the stored meta (status, result).  A task id with no    *)
(* stored meta reads as PENDING, which is how AsyncResult answers for any  *)
(* id, issued or not.                                                      *)
(*                                                                         *)
(* trigger_task and check_task_status are coroutines without an await, so  *)
(* the application's event loop runs one of them at a time, to its end.    *)
(* The workers are separate processes: every access to the broker or to    *)
(* the backend is one atomic step, and the steps of the workers interleave *)
(* freely with each other and with the steps of the running handler.       *)
(***************************************************************************)
EXTENDS Naturals, Sequences, FiniteSets, TLC

\* ------------------------------------------------------------ bounds
\* Number of submissions (calls of trigger_task) in a run.
MaxTasks == 3
\* Number of Celery worker processes consuming the broker queue.
NumWorkers == 1

\* ------------------------------------------------------------ values
\* Device tokens a client submits (path parameter of /task/{device_token}).
Tokens == {"device-42", "test_device"}

\* The empty token: the request GET /task/ .
EmptyToken == ""
\* The tokens a client may put in the path of a submission.
RequestTokens == Tokens \cup {EmptyToken}

\* Task ids the id generator can draw (uuid strings in the program).
TaskIds == 1..MaxTasks
\* An id that no submission ever returns ("invalid-task-id" of the tests).
InvalidId == 0
\* The ids a client may ask check_task_status about.
QueryIds == TaskIds \cup {InvalidId}

Workers == 1..NumWorkers

\* Python's None (JSON null).
None == "<None>"

\* Celery's task states that this program can store or report.
PENDING == "PENDING"
STARTED == "STARTED"
SUCCESS == "SUCCESS"
FAILURE == "FAILURE"
ReadyStates == {SUCCESS, FAILURE}

\* The exception long_running_task raises when task.log cannot be opened
\* or written; Celery stores it as the result of the failed task.
LogError == "OSError: task.log"

NoMsg == [id |-> InvalidId, token |-> None]
NoMeta == [status |-> PENDING, result |-> None]
NoResp == [kind |-> "none", http |-> 0, task_id |-> InvalidId,
           status |-> None, result |-> None, message |-> None]

VARIABLES
    broker,     \* the broker queue: task messages not yet taken by a worker
    published,  \* every task message ever published, in order
    backend,    \* the result backend: task id -> stored meta
    log,        \* the lines of task.log (the token of each line), in order
    worker,     \* each worker's position in long_running_task and its message
    handler,    \* the running request handler's position and locals
    returned,   \* the task ids returned by trigger_task, in order
    resp,       \* the response to the last request, until the next one starts
    observed    \* per id, the terminal (status, result) pairs ever reported

vars == <<broker, published, backend, log, worker, handler, returned, resp,
          observed>>

\* ----------------------------------------------------------- helpers
Range(s) == {s[i] : i \in 1..Len(s)}

Min(S) == CHOOSE x \in S : \A y \in S : x <= y

UsedIds == {published[i].id : i \in 1..Len(published)}

\* ------------------------------------------------------ configuration
\* A variant with the started state tracked.
task_track_started_on == TRUE

\* celery = Celery(__name__, broker=..., backend=...): nothing but the broker
\* and the backend is configured, so task_track_started keeps Celery's
\* default and a worker does not store STARTED when it takes a task.
task_track_started == FALSE

\* ------------------------------------------------------- pure functions
\* A variant that derives the id from the token.
NewTaskIdFromToken(token) == IF token = "device-42" THEN 1 ELSE 2

\* The id long_running_task.delay(device_token) gives the new task: a
\* uuid, which is an id no earlier task got (here the least unused one).
NewTaskId(token) == Min(TaskIds \ UsedIds)

\* A variant that leaves the token out of the return value.
TaskResultNoToken(token) == "Task completed for device_token"

\* The return value of long_running_task.
TaskResult(token) == "Task completed for " \o token

\* The line long_running_task appends to task.log (time.ctime() elided).
LogLine(token) == "Task completed for " \o token \o " at <ctime>"

\* A variant without the PENDING default for an id with no stored meta.
GetTaskMetaNoDefault(id) ==
    IF backend[id] = NoMeta THEN [status |-> "NOT_FOUND", result |-> None]
    ELSE backend[id]

\* What AsyncResult(task_id) reads from the backend: the stored meta, and
\* PENDING with no result for an id that has none.
GetTaskMeta(id) == backend[id]

\* A variant that answers 404 when nothing is stored for the id.
StatusResponseNotFound(task_id, status, meta) ==
    IF meta.status = PENDING
    THEN [kind |-> "status", http |-> 404, task_id |-> task_id,
          status |-> None, result |-> None, message |-> "Not found"]
    ELSE [kind |-> "status", http |-> 200, task_id |-> task_id,
          status |-> status,
          result |-> IF meta.status = SUCCESS THEN meta.result ELSE None,
          message |-> None]

\* A variant that returns the stored result of every ready task.
StatusResponseWithError(task_id, status, meta) ==
    [kind |-> "status", http |-> 200, task_id |-> task_id,
     status |-> status,
     result |-> IF meta.status \in ReadyStates THEN meta.result ELSE None,
     message |-> None]

\* The body check_task_status returns.  status is the first read of
\* task.status (the "status" entry), meta the second read (the condition of
\* the "result" entry; a ready state is cached together with its result).
StatusResponse(task_id, status, meta) ==
    [kind |-> "status", http |-> 200, task_id |-> task_id,
     status |-> status,
     result |-> IF meta.status = SUCCESS THEN meta.result ELSE None,
     message |-> None]

\* A variant of the route that also matches the empty token.
RouteMatchesAlways(token) == TRUE

\* @app.get("/task/{device_token}"): the route matches a path whose last
\* segment is not empty, and only then is trigger_task called.
RouteMatches(token) == Len(token) > 0

\* The answer to a request that matches no route.
NoRouteResponse ==
    [kind |-> "no_route", http |-> 404, task_id |-> InvalidId,
     status |-> None, result |-> None, message |-> "Not Found"]

\* The body trigger_task returns.
TriggerResponse(task_id) ==
    [kind |-> "trigger", http |-> 200, task_id |-> task_id,
     status |-> None, result |-> None, message |-> "Task queued"]

IdleWorker == [pc |-> "idle", task |-> NoMsg]
IdleHandler == [pc |-> "idle", task_id |-> InvalidId, status |-> None]

\* ---------------------------------------------------------------- Init
Init ==
    /\ broker = <<>>
    /\ published = <<>>
    /\ backend = [i \in QueryIds |-> NoMeta]
    /\ log = <<>>
    /\ worker = [w \in Workers |-> IdleWorker]
    /\ handler = IdleHandler
    /\ returned = <<>>
    /\ resp = NoResp
    /\ observed = [i \in QueryIds |-> {}]

\* ------------------------------------------------------------- workers
\* A worker takes the next message from the broker and calls
\* long_running_task with its token.
Pickup(w) ==
    /\ worker[w].pc = "idle"
    /\ broker # <<>>
    /\ broker' = Tail(broker)
    /\ worker' = [worker EXCEPT ![w] = [pc |-> "sleep", task |-> Head(broker)]]
    /\ backend' = IF task_track_started
                  THEN [backend EXCEPT ![Head(broker).id] =
                            [status |-> STARTED, result |-> None]]
                  ELSE backend
    /\ UNCHANGED <<published, log, handler, returned, resp, observed>>

\* A variant that goes on to the return without writing the line.
LogWriteSkipped(w) ==
    /\ worker[w].pc = "sleep"
    /\ worker' = [worker EXCEPT ![w].pc = "return"]
    /\ UNCHANGED <<broker, published, backend, log, handler, returned, resp,
                   observed>>

\* time.sleep(5), then the line is appended to task.log.
LogWrite(w) ==
    /\ worker[w].pc = "sleep"
    /\ log' = Append(log, LogLine(worker[w].task.token))
    /\ worker' = [worker EXCEPT ![w].pc = "return"]
    /\ UNCHANGED <<broker, published, backend, handler, returned, resp, observed>>

\* A variant that re-publishes the failed task's message (an automatic retry).
OnFailureRetry(w, exc) ==
    /\ backend' = [backend EXCEPT ![worker[w].task.id] =
                       [status |-> FAILURE, result |-> exc]]
    /\ broker' = Append(broker, worker[w].task)
    /\ worker' = [worker EXCEPT ![w] = IdleWorker]
    /\ UNCHANGED <<published, log, handler, returned, resp, observed>>

\* A variant in which the exception ends the worker's loop.
OnFailureCrash(w, exc) ==
    /\ worker' = [worker EXCEPT ![w].pc = "crashed"]
    /\ UNCHANGED <<broker, published, backend, log, handler, returned, resp,
                   observed>>

\* What Celery does with an exception that leaves long_running_task: the
\* task is stored as FAILURE with the exception, and the worker goes on to
\* the next message.
OnFailure(w, exc) ==
    /\ backend' = [backend EXCEPT ![worker[w].task.id] =
                       [status |-> FAILURE, result |-> exc]]
    /\ worker' = [worker EXCEPT ![w] = IdleWorker]
    /\ UNCHANGED <<broker, published, log, handler, returned, resp, observed>>

\* time.sleep(5), then open("task.log", "a") or the write raises OSError.
LogFail(w) ==
    /\ worker[w].pc = "sleep"
    /\ OnFailure(w, LogError)

\* A variant that drops the return value (ignore_result).
ReturnIgnoreResult(w) ==
    /\ worker[w].pc = "return"
    /\ worker' = [worker EXCEPT ![w] = IdleWorker]
    /\ UNCHANGED <<broker, published, backend, log, handler, returned, resp,
                   observed>>

\* long_running_task returns; Celery stores SUCCESS with the return value.
Return(w) ==
    /\ worker[w].pc = "return"
    /\ backend' = [backend EXCEPT ![worker[w].task.id] =
                       [status |-> SUCCESS,
                        result |-> TaskResult(worker[w].task.token)]]
    /\ worker' = [worker EXCEPT ![w] = IdleWorker]
    /\ UNCHANGED <<broker, published, log, handler, returned, resp, observed>>

WorkerNext(w) == Pickup(w) \/ LogWrite(w) \/ LogFail(w) \/ Return(w)

\* ------------------------------------------------------------ handlers
\* A queue capacity below the number of submissions; the program sets none.
QueueCapacity == MaxTasks - 1

\* A variant with blocking admission: delay() waits while the queue is full.
TriggerDelayBlocking(token) ==
    /\ handler.pc = "idle"
    /\ RouteMatches(token)
    /\ Len(published) < MaxTasks
    /\ Len(broker) < QueueCapacity
    /\ LET msg == [id |-> NewTaskId(token), token |-> token] IN
        /\ broker' = Append(broker, msg)
        /\ published' = Append(published, msg)
        /\ handler' = [pc |-> "trigger_return", task_id |-> msg.id,
                     status |-> None]
    /\ resp' = NoResp
    /\ UNCHANGED <<backend, log, worker, returned, observed>>

\* trigger_task, first line: long_running_task.delay(device_token) gives the
\* task an id and publishes the message to the broker.
TriggerDelay(token) ==
    /\ handler.pc = "idle"
    /\ RouteMatches(token)
    /\ Len(published) < MaxTasks
    /\ LET msg == [id |-> NewTaskId(token), token |-> token] IN
        /\ broker' = Append(broker, msg)
        /\ published' = Append(published, msg)
        /\ handler' = [pc |-> "trigger_return", task_id |-> msg.id,
                     status |-> None]
    /\ resp' = NoResp
    /\ UNCHANGED <<backend, log, worker, returned, observed>>

\* A submission whose path matches no route: trigger_task is not called.
TriggerNoRoute(token) ==
    /\ handler.pc = "idle"
    /\ ~RouteMatches(token)
    /\ resp' = NoRouteResponse
    /\ UNCHANGED <<broker, published, backend, log, worker, handler, returned,
                   observed>>

\* A variant that waits for the task's result before it answers.
TriggerReturnWaits ==
    /\ handler.pc = "trigger_return"
    /\ backend[handler.task_id].status \in ReadyStates
    /\ resp' = TriggerResponse(handler.task_id)
    /\ returned' = Append(returned, handler.task_id)
    /\ handler' = IdleHandler
    /\ UNCHANGED <<broker, published, backend, log, worker, observed>>

\* trigger_task, second line: the response with the task's id.
TriggerReturn ==
    /\ handler.pc = "trigger_return"
    /\ resp' = TriggerResponse(handler.task_id)
    /\ returned' = Append(returned, handler.task_id)
    /\ handler' = IdleHandler
    /\ UNCHANGED <<broker, published, backend, log, worker, observed>>

\* check_task_status up to the "status" entry of the response: the first
\* read of task.status.
StatusRead(id) ==
    /\ handler.pc = "idle"
    /\ handler' = [pc |-> "status_result", task_id |-> id,
                   status |-> GetTaskMeta(id).status]
    /\ resp' = NoResp
    /\ UNCHANGED <<broker, published, backend, log, worker, returned, observed>>

\* A variant that removes the stored result once it has been read (forget).
StatusRespondForgets ==
    /\ handler.pc = "status_result"
    /\ LET r == StatusResponse(handler.task_id, handler.status,
                               GetTaskMeta(handler.task_id)) IN
        /\ resp' = r
        /\ observed' = IF r.http = 200 /\ r.status \in ReadyStates
                       THEN [observed EXCEPT ![r.task_id] =
                                 @ \cup {<<r.status, r.result>>}]
                       ELSE observed
    /\ backend' = [backend EXCEPT ![handler.task_id] = NoMeta]
    /\ handler' = IdleHandler
    /\ UNCHANGED <<broker, published, log, worker, returned>>

\* check_task_status, the "result" entry: task.status is read again, and
\* the response is sent.
StatusRespond ==
    /\ handler.pc = "status_result"
    /\ LET r == StatusResponse(handler.task_id, handler.status,
                               GetTaskMeta(handler.task_id)) IN
        /\ resp' = r
        /\ observed' = IF r.http = 200 /\ r.status \in ReadyStates
                       THEN [observed EXCEPT ![r.task_id] =
                                 @ \cup {<<r.status, r.result>>}]
                       ELSE observed
    /\ handler' = IdleHandler
    /\ UNCHANGED <<broker, published, backend, log, worker, returned>>

HandlerNext ==
    \/ \E token \in RequestTokens : TriggerDelay(token)
    \/ \E token \in RequestTokens : TriggerNoRoute(token)
    \/ TriggerReturn
    \/ \E id \in QueryIds : StatusRead(id)
    \/ StatusRespond

\* ---------------------------------------------------------------- Spec
Next ==
    \/ \E w \in Workers : WorkerNext(w)
    \/ HandlerNext

Spec == Init /\ [][Next]_vars

\* The workers are scheduled fairly: a worker step that stays possible is
\* eventually taken.
FairSpec == Spec /\ WF_vars(\E w \in Workers : WorkerNext(w))

\* ------------------------------------------------------- worker crash
\* A worker process is killed while it executes a task.  The message was
\* acknowledged when the worker took it, and nothing in the program stores
\* a state for the task or publishes it again.
Crash(w) ==
    /\ worker[w].pc \in {"sleep", "return"}
    /\ worker' = [worker EXCEPT ![w].pc = "crashed"]
    /\ UNCHANGED <<broker, published, backend, log, handler, returned, resp,
                   observed>>

CrashNext ==
    \/ Next
    \/ \E w \in Workers : Crash(w)

\* The program with worker crashes, the live workers scheduled fairly.
CrashFairSpec ==
    Init /\ [][CrashNext]_vars /\ WF_vars(\E w \in Workers : WorkerNext(w))

\* ========================================================== properties
IsReady(i) == backend[i].status \in ReadyStates

\* Where the message of task i is: in the broker, held by a worker, or
\* turned into a stored result.
BrokerCopies(i) == Cardinality({k \in 1..Len(broker) : broker[k].id = i})
WorkerCopies(i) ==
    Cardinality({w \in Workers : worker[w].pc # "idle" /\ worker[w].task.id = i})
StoredCopies(i) == IF IsReady(i) THEN 1 ELSE 0

\* C1: under fair scheduling of the workers, every task that was submitted
\* (its message published by trigger_task) eventually reaches SUCCESS or
\* FAILURE: no task stays submitted and not terminal forever.
C1_Liveness ==
    \A i \in TaskIds : []<>(i \in UsedIds => IsReady(i))

C1_Witness ==
    /\ Len(published) = MaxTasks
    /\ \A i \in UsedIds : IsReady(i)
    /\ \E i \in UsedIds : backend[i].status = SUCCESS

C3_ReadAfterWrite ==
    (resp.kind = "status" /\ resp.task_id \in Range(returned)) =>
        /\ resp.http = 200
        /\ resp.status \in {PENDING, STARTED, SUCCESS, FAILURE}
        /\ resp.status # PENDING => resp.status = backend[resp.task_id].status

C3_Witness ==
    /\ resp.kind = "status"
    /\ resp.task_id \in Range(returned)
    /\ resp.status = PENDING
    /\ BrokerCopies(resp.task_id) = 1

\* C4: once a status query has reported a terminal state for an id, every
\* later query for it reports the same state and result (at most one
\* terminal answer is ever observed per id), and no step changes a stored
\* SUCCESS or FAILURE.
C4_TerminalStable ==
    /\ [](\A i \in QueryIds : Cardinality(observed[i]) <= 1)
    /\ [][\A i \in QueryIds : IsReady(i) => backend'[i] = backend[i]]_vars

C4_Witness ==
    \E i \in TaskIds :
        /\ observed[i] # {}
        /\ resp.kind = "status" /\ resp.task_id = i
        /\ \E j \in TaskIds : j # i /\ IsReady(j) /\ observed[j] # {}

\* C5 (as stated): the state of an id never changes from PENDING to SUCCESS
\* or FAILURE in one step.
C5_NoDirectTerminal ==
    [][\A i \in TaskIds :
          backend[i].status = PENDING => backend'[i].status \notin ReadyStates]_vars

\* C5 (amended): a task that reaches SUCCESS or FAILURE was being executed
\* by a worker immediately before, but execution is not reported: only
\* PENDING, SUCCESS and FAILURE are ever stored or reported, so the
\* reported state goes from PENDING to the terminal state in one step.
C5_Amended ==
    /\ [](\A i \in QueryIds : backend[i].status \in {PENDING, SUCCESS, FAILURE})
    /\ [](resp.kind = "status" => resp.status \in {PENDING, SUCCESS, FAILURE})
    /\ [][\A i \in TaskIds :
            (~IsReady(i) /\ backend'[i].status \in ReadyStates) =>
                /\ backend[i].status = PENDING
                /\ \E w \in Workers :
                       /\ worker[w].pc \in {"sleep", "return"}
                       /\ worker[w].task.id = i
                       /\ worker'[w].pc = "idle"]_vars

C5_Witness ==
    \E w \in Workers :
        /\ worker[w].pc = "return"
        /\ resp.kind = "status"
        /\ resp.task_id = worker[w].task.id
        /\ resp.status = PENDING
        /\ observed[resp.task_id] = {}

\* C6: in every status response the result is populated only when the
\* reported status is SUCCESS.
C6_ResultOnlyOnSuccess ==
    resp.kind = "status" => (resp.result # None => resp.status = SUCCESS)

\* C7: a status query for an id that was never issued is answered with the
\* normal body: 200, that id, PENDING, no result.
C7_UnknownIsPending ==
    (resp.kind = "status" /\ resp.task_id \notin UsedIds) =>
        resp = [kind |-> "status", http |-> 200, task_id |-> resp.task_id,
                status |-> PENDING, result |-> None, message |-> None]

C7_Witness ==
    /\ resp.kind = "status"
    /\ resp.task_id = InvalidId
    /\ \E i \in UsedIds : IsReady(i)

\* C8 (as stated): a status query for an id no submission has returned is
\* answered with NotFound.
C8_UnknownIsNotFound ==
    (resp.kind = "status" /\ resp.task_id \notin Range(returned)) =>
        resp.http = 404

\* C8 (amended): a status query for an id no submission has returned is
\* never answered with NotFound: the answer is 200 with the task state
\* PENDING and no result.
C8_Amended ==
    (resp.kind = "status" /\ resp.task_id \notin Range(returned)) =>
        /\ resp.http = 200
        /\ resp.status = PENDING
        /\ resp.result = None

C8_Witness ==
    /\ resp.kind = "status"
    /\ resp.task_id \in TaskIds
    /\ resp.task_id \notin Range(returned)
    /\ returned # <<>>

\* C9: when the work function raises, the task is stored as FAILURE with a
\* non-empty error and the worker is idle again, ready for the next
\* message; and under fair scheduling every submitted task still reaches a
\* terminal state once some task has failed.
C9_FailureIsolation ==
    /\ [](\A i \in QueryIds :
            backend[i].status = FAILURE =>
                backend[i].result # None /\ Len(backend[i].result) > 0)
    /\ [][\A w \in Workers :
            (worker[w].pc = "sleep" /\ worker'[w].pc \notin {"sleep", "return"}) =>
                /\ worker'[w].pc = "idle"
                /\ backend'[worker[w].task.id].status = FAILURE
                /\ backend'[worker[w].task.id].result # None]_vars
    /\ \A j \in TaskIds :
           []<>((j \in UsedIds /\ \E i \in TaskIds : backend[i].status = FAILURE)
                    => IsReady(j))

C9_Witness ==
    /\ Len(published) = MaxTasks
    /\ backend[published[1].id].status = FAILURE
    /\ \A k \in 2..Len(published) : backend[published[k].id].status = SUCCESS

\* C10 (as stated): a status response that reports FAILURE carries an error
\* description in place of the result.
C10_FailureCarriesError ==
    (resp.kind = "status" /\ resp.status = FAILURE) =>
        (resp.http = 200 /\ resp.result # None)

\* C10 (amended): a status query for a failed task is answered with 200,
\* status FAILURE and result null: no error description is returned, and
\* the failure is never a transport error.
C10_Amended ==
    /\ (resp.kind = "status" /\ resp.status = FAILURE) =>
           /\ resp.http = 200
           /\ resp.result = None
           /\ backend[resp.task_id].status = FAILURE
    /\ \A i \in QueryIds :
           backend[i].status = FAILURE => observed[i] \subseteq {<<FAILURE, None>>}
    /\ resp.kind = "status" => resp.http = 200

C10_Witness ==
    /\ resp.kind = "status"
    /\ resp.status = FAILURE
    /\ observed[resp.task_id] # {}

\* C11: a task submitted with token t that succeeded has the result
\* "Task completed for " followed by t, and a status response that reports
\* SUCCESS, or carries a result, carries exactly that string.
C11_ResultText ==
    /\ \A k \in 1..Len(published) :
           backend[published[k].id].status = SUCCESS =>
               backend[published[k].id].result =
                   "Task completed for " \o published[k].token
    /\ \A k \in 1..Len(published) :
           (resp.kind = "status" /\ resp.task_id = published[k].id) =>
               /\ resp.status = SUCCESS =>
                      resp.result = "Task completed for " \o published[k].token
               /\ resp.result # None =>
                      resp.result = "Task completed for " \o published[k].token

C11_Witness ==
    /\ resp.kind = "status"
    /\ resp.status = SUCCESS
    /\ resp.result = "Task completed for test_device"
    /\ \E i \in TaskIds : i # resp.task_id /\
           backend[i] = [status |-> SUCCESS,
                         result |-> "Task completed for device-42"]

\* C12: trigger_task answers without waiting for execution: once the
\* message is published the response can be sent in any state of the task
\* and of the workers, and it is 200 with the id and "Task queued".
C12_NonBlocking ==
    /\ handler.pc = "trigger_return" => ENABLED TriggerReturn
    /\ resp.kind = "trigger" =>
           /\ resp.http = 200
           /\ resp.message = "Task queued"
           /\ resp.task_id \in UsedIds

C12_Witness ==
    /\ handler.pc = "trigger_return"
    /\ BrokerCopies(handler.task_id) = 1
    /\ \A w \in Workers : worker[w].pc \in {"sleep", "return"}
    /\ ENABLED TriggerReturn

\* C13 (as stated): a submission with an empty input is rejected with a
\* ValidationError (422), and creates nothing.
C13_ValidationError ==
    /\ \A k \in 1..Len(published) : Len(published[k].token) > 0
    /\ (resp.kind \in {"trigger", "no_route"} /\ resp.http # 200) =>
           resp.http = 422

\* C13 (amended): a submission with an empty token is rejected before
\* trigger_task runs, because no route matches it: the answer is 404 Not
\* Found, not a ValidationError, and it issues no id, creates no record and
\* enqueues nothing.  Every non-empty token is accepted; nothing else is
\* validated.
C13_Amended ==
    /\ [](\A k \in 1..Len(published) : Len(published[k].token) > 0)
    /\ [](resp.kind = "no_route" =>
              /\ resp.http = 404
              /\ resp.message = "Not Found"
              /\ resp.task_id = InvalidId)
    /\ [][(resp'.kind = "no_route" /\ resp.kind # "no_route") =>
              UNCHANGED <<broker, published, backend, log, worker, returned,
                          observed>>]_vars
    /\ [](\A token \in Tokens :
              (handler.pc = "idle" /\ Len(published) < MaxTasks) =>
                  ENABLED TriggerDelay(token))

C13_Witness ==
    /\ resp.kind = "no_route"
    /\ Len(published) = 1
    /\ broker # <<>>

\* C14: a step of check_task_status, for a known or an unknown id, changes
\* neither the stored records (state, result, error of every id), nor the
\* queue, nor the messages held by workers, nor the log, nor the ids issued.
C14_StatusReadOnly ==
    [][(handler' # handler /\
            (handler'.pc = "status_result" \/ handler.pc = "status_result")) =>
          UNCHANGED <<broker, published, backend, log, worker, returned>>]_vars

C14_Witness ==
    /\ resp.kind = "status"
    /\ IsReady(resp.task_id)
    /\ \E i \in TaskIds : observed[i] # {} /\ i # resp.task_id
    /\ broker # <<>>
    /\ log # <<>>

\* C15 (as stated): a record of the task is stored before the task is
\* available to a worker, so no worker executes a task that has no stored
\* record.
C15_RecordBeforeStart ==
    \A w \in Workers :
        worker[w].pc \in {"sleep", "return"} =>
            backend[worker[w].task.id] # NoMeta

\* C15 (amended): trigger_task creates no record before it enqueues: it only
\* publishes the message, and nothing is stored for the id until the task
\* ends.  A worker therefore always executes a task that has no stored
\* record, possibly before trigger_task has returned the id; the id is
\* resolvable all the same, because the status query answers PENDING for an
\* id with nothing stored.  A worker only executes published messages.
C15_Amended ==
    /\ \A w \in Workers :
           worker[w].pc \in {"sleep", "return"} =>
               /\ worker[w].task.id \in UsedIds
               /\ backend[worker[w].task.id] = NoMeta
               /\ LET r == StatusResponse(worker[w].task.id,
                                          GetTaskMeta(worker[w].task.id).status,
                                          GetTaskMeta(worker[w].task.id)) IN
                      r.http = 200 /\ r.status = PENDING /\ r.result = None
    /\ \A k \in 1..Len(broker) :
           /\ broker[k].id \in UsedIds
           /\ backend[broker[k].id] = NoMeta

C15_Witness ==
    /\ handler.pc = "trigger_return"
    /\ \E w \in Workers :
           /\ worker[w].pc = "return"
           /\ worker[w].task.id = handler.task_id
    /\ handler.task_id \notin Range(returned)

\* C16 (as stated): the number of enqueued, not yet started tasks never
\* exceeds the capacity, and a submission that finds the queue full waits.
C16_BoundedQueue ==
    /\ Len(broker) <= QueueCapacity
    /\ Len(broker) = QueueCapacity =>
           \A token \in Tokens : ~ENABLED TriggerDelay(token)

\* C16 (amended): the queue has no capacity: a submission is admitted at
\* once whatever the backlog, it is never blocked and never rejected as
\* overloaded, and every submission makes the queue one longer, so the
\* backlog can be as long as the number of submissions.
C16_Amended ==
    /\ [](\A token \in Tokens :
              (handler.pc = "idle" /\ Len(published) < MaxTasks) =>
                  ENABLED TriggerDelay(token))
    /\ [](Len(broker) <= Len(published))
    /\ [](resp.kind = "trigger" => resp.http = 200)
    /\ [][Len(published') > Len(published) =>
              /\ Len(broker') = Len(broker) + 1
              /\ broker'[Len(broker')] = published'[Len(published')]]_vars

C16_Witness ==
    /\ Len(broker) = MaxTasks
    /\ Len(broker) > QueueCapacity
    /\ resp.kind = "trigger"

\* C17: in every stored record the result is present only with SUCCESS and
\* the error only with FAILURE, both empty while the task is not terminal;
\* and no status response pairs a result with a status other than SUCCESS,
\* or SUCCESS with no result.
C17_NoTornPair ==
    /\ \A i \in QueryIds :
           /\ backend[i].status \in {PENDING, STARTED} => backend[i].result = None
           /\ backend[i].status = SUCCESS =>
                  backend[i].result \notin {None, LogError}
           /\ backend[i].status = FAILURE => backend[i].result = LogError
    /\ resp.kind = "status" =>
           (resp.result # None <=> resp.status = SUCCESS)

\* C18: a task whose worker crashed while executing it is eventually FAILURE.
C18_CrashResolved ==
    \A w \in Workers :
        []<>(worker[w].pc = "crashed" =>
                 backend[worker[w].task.id].status = FAILURE)

\* The lines of task.log written for token t.
LinesFor(t) == {n \in 1..Len(log) : log[n] = "Task completed for " \o t \o " at <ctime>"}

\* The executions with token t that are past the write: those that ended
\* in SUCCESS and those a worker holds at its return.
WrittenFor(t) ==
    {k \in 1..Len(published) :
        /\ published[k].token = t
        /\ \/ backend[published[k].id].status = SUCCESS
           \/ \E w \in Workers : /\ worker[w].pc = "return"
                                 /\ worker[w].task.id = published[k].id}

\* C19: the line is appended before the result is stored: every task in
\* SUCCESS has a line for its token in task.log, every execution has
\* appended at most one line (the lines for a token are as many as the
\* executions with that token that are past the write), and a task whose
\* append failed is FAILURE with the error, no result and no line.
C19_LogBeforeResult ==
    /\ \A k \in 1..Len(published) :
           backend[published[k].id].status = SUCCESS =>
               LinesFor(published[k].token) # {}
    /\ \A t \in Tokens : Cardinality(LinesFor(t)) = Cardinality(WrittenFor(t))
    /\ \A n \in 1..Len(log) : \E t \in Tokens : n \in LinesFor(t)
    /\ \A i \in QueryIds :
           backend[i].status = FAILURE => backend[i].result = LogError
    /\ (resp.kind = "status" /\ resp.status = FAILURE) => resp.result = None

C19_Witness ==
    /\ Len(published) = MaxTasks
    /\ \A k \in 1..Len(published) : published[k].token = "device-42"
    /\ backend[published[1].id].status = SUCCESS
    /\ backend[published[2].id].status = FAILURE
    /\ \E w \in Workers : worker[w].pc = "return"
    /\ Len(log) = 2
====
